---------------------------- MODULE Spec2Model ----------------------------
(***************************************************************************)
(* A model of the expense tracker (src/src/app.rs, src/src/settings.rs):   *)
(* the arithmetic evaluator calc, the name history (Settings, de_map), the *)
(* TitleCompleter, and the session App::run with its record builder        *)
(* App::create_page_properties.                                            *)
(*                                                                         *)
(* Strings that the code inspects character by character (expressions,     *)
(* names, prefixes) are sequences of one-character strings.  Strings that  *)
(* the code only compares or passes on (category labels, page titles) are  *)
(* TLA+ strings.  An f64 is an extended rational <<n, d>>: d > 0 and       *)
(* gcd(n, d) = 1 for a finite value, <<1, 0>> and <<-1, 0>> for the two    *)
(* infinities, <<0, 0>> for NaN.  Rounding is not modelled, and 0.0 and    *)
(* -0.0 are one value (they compare equal, and no divisor of calc is       *)
(* negative zero, since every divisor is a parsed, unsigned token).        *)
(***************************************************************************)
EXTENDS Integers, Sequences, FiniteSets, TLC

VARIABLES
    \* calc (app.rs 164-218): its argument, the scan index, its three locals,
    \* where it is ("loop", "end", "returned") and what it returned
    expresion, idx, op, pos, stack, cpc, ret,
    \* the operands and operators an expression was assembled from (ghost)
    operands, operators,
    \* Settings (settings.rs): the configuration read, the order in which
    \* de_map's HashMap iterates over it, PredefinedExpenses, and the last
    \* Settings::get call (its key and what it returned)
    config, order, normalized, original, get_key, get_result,
    \* TitleCompleter (app.rs 74-142): its three fields, and the last two
    \* get_suggestions calls (ghost): prefix, result, memo before the call
    \* and the last Replacement of get_completion
    prev_titles, input, output, ncalls, q_prev, r_prev, q_last, r_last, memo_before,
    completion,
    \* App (app.rs 5-10) and the locals of run / create_page_properties
    pc, db_properties, categories_cache, last_date, properties, preselect,
    today, run_result,
    \* ghosts of the session: iteration number, the calls and prompts of the
    \* current iteration, call counters, the default the last Date prompt
    \* offered, the clock at that prompt, the date the operator chose at the
    \* Date prompt before it and at the last one, the record last submitted,
    \* whether calc failed in this iteration, where the Category prompt put
    \* its cursor, which prompt was cancelled, whether the fetch of the
    \* categories failed in this iteration, the list the last Category
    \* prompt displayed
    iter, trace, fetch_calls, fetch_failed, displayed, schema_fetches, listings, created_count,
    default_offered, now_at_prompt, chosen_before, last_chosen, last_created,
    amount_failed, cursor_start, cancelled

calcVars == <<expresion, idx, op, pos, stack, cpc, ret, operands, operators>>
settingsVars == <<config, order, normalized, original>>
getVars == <<get_key, get_result>>
completerVars == <<prev_titles, input, output, ncalls, q_prev, r_prev, q_last,
                   r_last, memo_before, completion>>
appVars == <<pc, db_properties, categories_cache, last_date, properties,
             preselect, today, run_result>>
ghostVars == <<iter, trace, fetch_calls, fetch_failed, displayed, schema_fetches, listings, created_count,
               default_offered, now_at_prompt, chosen_before, last_chosen,
               last_created, amount_failed, cursor_start, cancelled>>
vars == <<calcVars, settingsVars, getVars, completerVars, appVars, ghostVars>>

\* Option: None and Some(x), with x = Unwrap(Some(x))
None == <<>>

Some(x) == <<x>>

Unwrap(o) == o[1]

(***************************************************************************)
(* Bounds of the model.                                                    *)
(***************************************************************************)
\* longest expression, in characters, of the specification over all strings
MaxLen == 4
\* most operands of an assembled operand/operator expression
MaxOperands == 3
\* most names one category label lists; most titles of a TitleCompleter
MaxNames == 2
\* most iterations of the session loop
MaxIter == 2
\* how many midnights may pass during a session
MaxDay == 1

(***************************************************************************)
(* f64 values and arithmetic.                                              *)
(***************************************************************************)
Abs(x) == IF x < 0 THEN -x ELSE x

Sign(x) == IF x > 0 THEN 1 ELSE IF x < 0 THEN -1 ELSE 0

RECURSIVE Gcd(_, _)
Gcd(a, b) == IF b = 0 THEN a ELSE Gcd(b, a % b)

\* the finite value n/d (d # 0), in lowest terms with a positive denominator
Norm(n, d) ==
    LET g == Gcd(Abs(n), Abs(d))
    IN  <<Sign(n) * Sign(d) * (Abs(n) \div g), Abs(d) \div g>>

NaN == <<0, 0>>

IsFinite(x) == x[2] # 0

FAdd(a, b) ==
    IF a = NaN \/ b = NaN THEN NaN
    ELSE IF ~IsFinite(a) /\ ~IsFinite(b) THEN (IF a = b THEN a ELSE NaN)
    ELSE IF ~IsFinite(a) THEN a
    ELSE IF ~IsFinite(b) THEN b
    ELSE Norm(a[1] * b[2] + b[1] * a[2], a[2] * b[2])

FSub(a, b) == FAdd(a, <<-b[1], b[2]>>)

FMul(a, b) ==
    IF a = NaN \/ b = NaN THEN NaN
    ELSE IF ~IsFinite(a) \/ ~IsFinite(b)
         THEN (IF a[1] = 0 \/ b[1] = 0 THEN NaN ELSE <<Sign(a[1]) * Sign(b[1]), 0>>)
    ELSE Norm(a[1] * b[1], a[2] * b[2])

\* a guarded division: a zero divisor gives zero
FDivGuarded(a, b) ==
    IF a = NaN \/ b = NaN THEN NaN
    ELSE IF ~IsFinite(a) /\ ~IsFinite(b) THEN NaN
    ELSE IF ~IsFinite(a) THEN <<a[1] * (IF b[1] < 0 THEN -1 ELSE 1), 0>>
    ELSE IF ~IsFinite(b) THEN <<0, 1>>
    ELSE IF b[1] = 0 THEN <<0, 1>>
    ELSE Norm(a[1] * b[2], a[2] * b[1])

FDiv(a, b) ==
    IF a = NaN \/ b = NaN THEN NaN
    ELSE IF ~IsFinite(a) /\ ~IsFinite(b) THEN NaN
    ELSE IF ~IsFinite(a) THEN <<a[1] * (IF b[1] < 0 THEN -1 ELSE 1), 0>>
    ELSE IF ~IsFinite(b) THEN <<0, 1>>
    ELSE IF b[1] = 0 THEN (IF a[1] = 0 THEN NaN ELSE <<Sign(a[1]), 0>>)
    ELSE Norm(a[1] * b[2], a[2] * b[1])

\* Result<f64>
Ok(v) == [ok |-> TRUE, v |-> v, err |-> ""]

Err(m) == [ok |-> FALSE, v |-> NaN, err |-> m]

\* the value of ret while calc has not returned
Pending == Err("pending")

(***************************************************************************)
(* calc: characters, tokens, the scan.                                     *)
(***************************************************************************)
\* char::is_digit(c, 10)
IsDigit(c) == c \in {"0", "1", "2", "3", "4", "5", "6", "7", "8", "9"}

\* matches!(c, ','|'.')
IsSeparator(c) == c \in {",", "."}

DigitValue(c) ==
    CASE c = "0" -> 0 [] c = "1" -> 1 [] c = "2" -> 2 [] c = "3" -> 3
      [] c = "4" -> 4 [] c = "5" -> 5 [] c = "6" -> 6 [] c = "7" -> 7
      [] c = "8" -> 8 [] c = "9" -> 9

RECURSIVE DigitsValue(_)
DigitsValue(s) ==
    IF s = <<>> THEN 0
    ELSE 10 * DigitsValue(SubSeq(s, 1, Len(s) - 1)) + DigitValue(s[Len(s)])

RECURSIVE Pow10(_)
Pow10(n) == IF n = 0 THEN 1 ELSE 10 * Pow10(n - 1)

\* str::parse::<f64>() of a token of digits, '.' and ',': decimal digits with
\* at most one '.', at least one digit; anything else is a ParseFloatError
ParseF64(tok) ==
    LET dots == {k \in 1..Len(tok) : tok[k] = "."}
    IN  IF \E k \in 1..Len(tok) : ~IsDigit(tok[k]) /\ tok[k] # "."
            THEN Err("ParseFloatError")
        ELSE IF Cardinality(dots) > 1 \/ Cardinality(dots) = Len(tok)
            THEN Err("ParseFloatError")
        ELSE LET p == IF dots = {} THEN Len(tok) + 1 ELSE CHOOSE k \in dots : TRUE
                 int == SubSeq(tok, 1, p - 1)
                 frac == SubSeq(tok, p + 1, Len(tok))
             IN  Ok(Norm(DigitsValue(int \o frac), Pow10(Len(frac))))

\* Operator::from
Operator_from(c) ==
    CASE c = "+" -> Some("Add") [] c = "-" -> Some("Sub")
      [] c = "*" -> Some("Mul") [] c = "/" -> Some("Div")
      [] OTHER -> None

\* the match on the operator
Apply(o, lhs, rhs) ==
    CASE o = "Add" -> FAdd(lhs, rhs) [] o = "Sub" -> FSub(lhs, rhs)
      [] o = "Mul" -> FMul(lhs, rhs) [] o = "Div" -> FDiv(lhs, rhs)

\* a slip: the two operands taken from the stack in the wrong order
CombineSwapped(o, st) == Apply(o, st[2], st[1])

\* rhs = stack.remove(1); lhs = stack.remove(0); lhs op rhs, op = op.take().unwrap()
Combine(o, st) == Apply(o, st[1], st[2])

\* the locals of calc as one value
CalcState(o, p, st, c, r) == [op |-> o, pos |-> p, stack |-> st, cpc |-> c, ret |-> r]

\* let mut op = None; let mut pos = None; let mut stack = Vec::new()
CalcEntry == CalcState(None, None, <<>>, "loop", Pending)

\* one iteration of the for loop, on the character e[i].  pos is the index
\* of the token's first character, counted from 1 (the code counts from 0).
CalcChar(s, e, i) ==
    LET c == e[i]
    IN  IF IsDigit(c) /\ s.pos = None
            THEN [s EXCEPT !.pos = Some(i)]
        ELSE IF ~IsDigit(c) /\ ~IsSeparator(c)
            THEN IF s.pos # None
                 THEN LET r == ParseF64(SubSeq(e, Unwrap(s.pos), i - 1))
                          pushed == Append(s.stack, r.v)
                      IN  IF ~r.ok
                              THEN [s EXCEPT !.pos = None, !.cpc = "returned", !.ret = r]
                          ELSE IF s.op # None /\ Len(pushed) = 2
                              THEN [s EXCEPT !.pos = None, !.op = Operator_from(c),
                                             !.stack = <<Combine(Unwrap(s.op), pushed)>>]
                          ELSE [s EXCEPT !.pos = None, !.op = Operator_from(c),
                                         !.stack = pushed]
                 ELSE [s EXCEPT !.op = Operator_from(c)]
        ELSE s

\* the code after the loop: the last token, then the final match
CalcEnd(s, e) ==
    LET r == IF s.pos # None THEN ParseF64(SubSeq(e, Unwrap(s.pos), Len(e))) ELSE Ok(NaN)
        st == IF s.pos # None THEN Append(s.stack, r.v) ELSE s.stack
    IN  IF ~r.ok
            THEN [s EXCEPT !.pos = None, !.cpc = "returned", !.ret = r]
        ELSE IF s.op # None /\ Len(st) = 2
            THEN [s EXCEPT !.pos = None, !.op = None, !.stack = <<>>,
                           !.cpc = "returned", !.ret = Ok(Combine(Unwrap(s.op), st))]
        ELSE IF s.op = None /\ Len(st) = 1
            THEN [s EXCEPT !.pos = None, !.stack = <<>>,
                           !.cpc = "returned", !.ret = Ok(st[1])]
        ELSE [s EXCEPT !.pos = None, !.stack = st,
                       !.cpc = "returned", !.ret = Err("Not expeceted")]

RECURSIVE CalcFrom(_, _, _)
CalcFrom(s, e, i) ==
    IF s.cpc = "returned" THEN s.ret
    ELSE IF i > Len(e) THEN CalcEnd(s, e).ret
    ELSE CalcFrom(CalcChar(s, e, i), e, i + 1)

\* calc(expresion)
calc(e) == CalcFrom(CalcEntry, e, 1)

(***************************************************************************)
(* Settings: the name history.                                             *)
(***************************************************************************)
UpperCase == <<"A", "B", "C", "D", "E", "F", "G", "H", "I", "J", "K", "L", "M",
               "N", "O", "P", "Q", "R", "S", "T", "U", "V", "W", "X", "Y", "Z">>

LowerCase == <<"a", "b", "c", "d", "e", "f", "g", "h", "i", "j", "k", "l", "m",
               "n", "o", "p", "q", "r", "s", "t", "u", "v", "w", "x", "y", "z">>

\* char::to_lowercase, on the ASCII characters of the model
ToLowerChar(c) ==
    IF \E k \in 1..Len(UpperCase) : UpperCase[k] = c
    THEN LowerCase[CHOOSE k \in 1..Len(UpperCase) : UpperCase[k] = c]
    ELSE c

\* a slip: the string used as it is
ToLowercaseIdentity(s) == s

\* str::to_lowercase
ToLowercase(s) == [k \in 1..Len(s) |-> ToLowerChar(s[k])]

\* Vec::contains
Contains(seq, x) == \E k \in 1..Len(seq) : seq[k] = x

\* PredefinedExpenses::default()
NoExpenses == [normalized |-> <<>>, original |-> <<>>]

\* the body of for_each: one name of the list of one label
DeMapName(acc, label, name) ==
    [normalized |-> (ToLowercase(name) :> label) @@ acc.normalized,
     original |-> IF Contains(acc.original, name) THEN acc.original
                  ELSE Append(acc.original, name)]

RECURSIVE DeMapNames(_, _, _)
DeMapNames(acc, label, names) ==
    IF names = <<>> THEN acc
    ELSE DeMapNames(DeMapName(acc, label, Head(names)), label, Tail(names))

\* map.iter().fold(..): ord is the order in which the HashMap yields its keys
RECURSIVE DeMapFold(_, _, _)
DeMapFold(acc, cfg, ord) ==
    IF ord = <<>> THEN acc
    ELSE DeMapFold(DeMapNames(acc, Head(ord), cfg[Head(ord)]), cfg, Tail(ord))

de_map(cfg, ord) == DeMapFold(NoExpenses, cfg, ord)

\* a slip: the key looked up as typed
Settings_get_as_typed(norm, key) ==
    IF key \in DOMAIN norm THEN Some(norm[key]) ELSE None

\* Settings::get
Settings_get(norm, key) ==
    IF ToLowercase(key) \in DOMAIN norm THEN Some(norm[ToLowercase(key)]) ELSE None

\* Settings::list
Settings_list(orig) == orig

(***************************************************************************)
(* TitleCompleter.                                                         *)
(***************************************************************************)
\* str::starts_with
StartsWith(s, prefix) ==
    Len(prefix) <= Len(s) /\ SubSeq(s, 1, Len(prefix)) = prefix

\* TitleCompleter::new
TitleCompleter_new(titles) == [input |-> <<>>, output |-> <<>>, prev_titles |-> titles]

\* a slip: self.output.clear() left out
update_input_no_clear(tc, inp) ==
    IF tc.input = inp THEN tc
    ELSE [tc EXCEPT !.input = inp,
                    !.output = tc.output \o SelectSeq(tc.prev_titles,
                                                      LAMBDA t : StartsWith(t, inp))]

\* TitleCompleter::update_input
update_input(tc, inp) ==
    IF tc.input = inp THEN tc
    ELSE [tc EXCEPT !.input = inp,
                    !.output = SelectSeq(tc.prev_titles, LAMBDA t : StartsWith(t, inp))]

\* the Replacement get_completion returns, from the updated completer
Completion(tc, highlighted) ==
    IF highlighted # None THEN highlighted
    ELSE IF Len(tc.output) = 1 THEN Some(tc.output[1])
    ELSE None

(***************************************************************************)
(* The inputs of the model.                                                *)
(***************************************************************************)
\* all sequences over S of length lo..hi
SeqsOf(S, lo, hi) == UNION {[1..n -> S] : n \in lo..hi}

\* digits, both separators, the four operators, one illegal character
ExprChars == {"0", "1", "2", ".", ",", "+", "-", "*", "/", " "}

OperatorChars == {"+", "-", "*", "/"}

\* numeric operands: the token and the number it denotes
OperandPool ==
    {[tok |-> <<"1", "0">>, val |-> <<10, 1>>],
     [tok |-> <<"2">>, val |-> <<2, 1>>],
     [tok |-> <<"0">>, val |-> <<0, 1>>],
     [tok |-> <<"1", "0", ".", "1">>, val |-> <<101, 10>>]}

\* n1 op1 n2 op2 ... nk as a string
RECURSIVE Assemble(_, _)
Assemble(opnds, ops) ==
    IF Len(opnds) = 1 THEN opnds[1].tok
    ELSE Assemble(SubSeq(opnds, 1, Len(opnds) - 1), SubSeq(ops, 1, Len(ops) - 1))
         \o <<ops[Len(ops)]>> \o opnds[Len(opnds)].tok

Labels == {"Food", "Transport"}

Names == {<<"T", "a">>, <<"t", "a">>, <<"T", "A">>, <<"T">>, <<"b">>}

\* what is looked up, and what is typed at the Name prompt's completer
Keys == Names \cup {<<>>, <<"t">>, <<"t", "A">>, <<"B">>, <<"a">>}

\* the orders in which a HashMap over the labels may iterate
Orders == {o \in [1..Cardinality(Labels) -> Labels] :
             \A j, k \in 1..Cardinality(Labels) : o[j] = o[k] => j = k}

NoDuplicates(seq) == \A j, k \in 1..Len(seq) : seq[j] = seq[k] => j = k

(***************************************************************************)
(* The parts of the state a specification does not use.                    *)
(***************************************************************************)
CalcIdle ==
    /\ expresion = <<>> /\ idx = 1 /\ op = None /\ pos = None /\ stack = <<>>
    /\ cpc = "idle" /\ ret = Pending /\ operands = <<>> /\ operators = <<>>

SettingsIdle ==
    /\ config = [l \in Labels |-> <<>>] /\ order = <<>>
    /\ normalized = <<>> /\ original = <<>>

GetIdle == get_key = None /\ get_result = None

CompleterIdle ==
    /\ prev_titles = <<>> /\ input = <<>> /\ output = <<>> /\ ncalls = 0
    /\ q_prev = <<>> /\ r_prev = <<>> /\ q_last = <<>> /\ r_last = <<>>
    /\ memo_before = <<>> /\ completion = None

AppIdle ==
    /\ pc = "idle" /\ db_properties = <<>> /\ categories_cache = None
    /\ last_date = None /\ properties = <<>> /\ preselect = None
    /\ today = 0 /\ run_result = "running"

GhostIdle ==
    /\ iter = 0 /\ trace = <<>> /\ fetch_calls = 0 /\ schema_fetches = 0
    /\ fetch_failed = FALSE /\ displayed = None
    /\ listings = 0 /\ created_count = 0 /\ default_offered = None
    /\ now_at_prompt = None /\ chosen_before = None /\ last_chosen = None
    /\ last_created = None /\ amount_failed = FALSE /\ cursor_start = None
    /\ cancelled = None

(***************************************************************************)
(* calc, one step of its scan at a time.                                   *)
(***************************************************************************)
CalcStart(e, opnds, ops) ==
    /\ expresion = e /\ idx = 1
    /\ op = CalcEntry.op /\ pos = CalcEntry.pos /\ stack = CalcEntry.stack
    /\ cpc = CalcEntry.cpc /\ ret = CalcEntry.ret
    /\ operands = opnds /\ operators = ops
    /\ SettingsIdle /\ GetIdle /\ CompleterIdle /\ AppIdle /\ GhostIdle

\* calc on any string
InitCalc == \E e \in SeqsOf(ExprChars, 0, MaxLen) : CalcStart(e, <<>>, <<>>)

\* calc on operands separated by single operators
InitFold ==
    \E k \in 1..MaxOperands :
        \E opnds \in [1..k -> OperandPool], ops \in [1..(k - 1) -> OperatorChars] :
            CalcStart(Assemble(opnds, ops), opnds, ops)

CalcBecomes(s) ==
    /\ op' = s.op /\ pos' = s.pos /\ stack' = s.stack /\ cpc' = s.cpc /\ ret' = s.ret
    /\ UNCHANGED <<expresion, operands, operators>>
    /\ UNCHANGED <<settingsVars, getVars, completerVars, appVars, ghostVars>>

\* the loop body on the next character
CalcLoop ==
    /\ cpc = "loop" /\ idx <= Len(expresion)
    /\ idx' = idx + 1
    /\ CalcBecomes(CalcChar(CalcState(op, pos, stack, cpc, ret), expresion, idx))

\* the loop is over: the code after it
CalcReturn ==
    /\ cpc = "loop" /\ idx > Len(expresion)
    /\ idx' = idx
    /\ CalcBecomes(CalcEnd(CalcState(op, pos, stack, cpc, ret), expresion))

NextCalc == CalcLoop \/ CalcReturn

SpecCalc == InitCalc /\ [][NextCalc]_vars

SpecFold == InitFold /\ [][NextCalc]_vars

(***************************************************************************)
(* Settings: built once by de_map, then queried.                           *)
(***************************************************************************)
SettingsLoaded(cfg, ord) ==
    /\ config = cfg /\ order = ord
    /\ normalized = de_map(cfg, ord).normalized
    /\ original = de_map(cfg, ord).original

InitSettings ==
    /\ \E cfg \in [Labels -> SeqsOf(Names, 0, MaxNames)], ord \in Orders :
           SettingsLoaded(cfg, ord)
    /\ GetIdle /\ CalcIdle /\ CompleterIdle /\ AppIdle /\ GhostIdle

Get(key) ==
    /\ get_key' = Some(key)
    /\ get_result' = Settings_get(normalized, key)
    /\ UNCHANGED <<calcVars, settingsVars, completerVars, appVars, ghostVars>>

NextSettings == \E key \in Keys : Get(key)

SpecSettings == InitSettings /\ [][NextSettings]_vars

(***************************************************************************)
(* A TitleCompleter, queried as the operator types.                        *)
(***************************************************************************)
Completer == [input |-> input, output |-> output, prev_titles |-> prev_titles]

InitCompleter ==
    /\ \E titles \in SeqsOf(Names, 0, MaxNames) :
           /\ NoDuplicates(titles)
           /\ prev_titles = TitleCompleter_new(titles).prev_titles
    /\ input = TitleCompleter_new(<<>>).input /\ output = TitleCompleter_new(<<>>).output
    /\ ncalls = 0 /\ q_prev = <<>> /\ r_prev = <<>> /\ q_last = <<>> /\ r_last = <<>>
    /\ memo_before = <<>> /\ completion = None
    /\ CalcIdle /\ SettingsIdle /\ GetIdle /\ AppIdle /\ GhostIdle

\* get_suggestions(inp): the result is r_last
get_suggestions(inp) ==
    LET tc == update_input(Completer, inp)
    IN  /\ input' = tc.input /\ output' = tc.output
        /\ ncalls' = IF ncalls < 2 THEN ncalls + 1 ELSE ncalls
        /\ q_prev' = q_last /\ r_prev' = r_last
        /\ q_last' = inp /\ r_last' = tc.output
        /\ memo_before' = <<input, output>>
        /\ UNCHANGED <<prev_titles, completion>>
        /\ UNCHANGED <<calcVars, settingsVars, getVars, appVars, ghostVars>>

\* get_completion(inp, highlighted); it ends a run of get_suggestions calls
get_completion(inp, highlighted) ==
    LET tc == update_input(Completer, inp)
    IN  /\ input' = tc.input /\ output' = tc.output
        /\ completion' = Completion(tc, highlighted)
        /\ ncalls' = 0 /\ q_prev' = <<>> /\ r_prev' = <<>>
        /\ q_last' = <<>> /\ r_last' = <<>> /\ memo_before' = <<>>
        /\ UNCHANGED prev_titles
        /\ UNCHANGED <<calcVars, settingsVars, getVars, appVars, ghostVars>>

NextCompleter ==
    \/ \E inp \in Keys : get_suggestions(inp)
    \/ \E inp \in Keys, h \in {None} \cup {Some(r_last[k]) : k \in 1..Len(r_last)} :
           get_completion(inp, h)

SpecCompleter == InitCompleter /\ [][NextCompleter]_vars

(***************************************************************************)
(* The session: App::run, create_page, create_page_properties.             *)
(***************************************************************************)
Fields == {"Name", "Amount", "Date", "Category"}

\* the kind each field is read as, and a kind it is not read as
RightKind == [Name |-> "Title", Amount |-> "Number", Date |-> "Date",
              Category |-> "Relation"]

OtherKind == [Name |-> "Number", Amount |-> "Checkbox", Date |-> "Title",
              Category |-> "Date"]

\* the schemas get_database may return: every field absent, of the kind it
\* is read as, or of another kind
Schemas ==
    UNION {{sch \in [D -> {"Title", "Number", "Date", "Relation", "Checkbox"}] :
              \A f \in D : sch[f] \in {RightKind[f], OtherKind[f]}} :
           D \in SUBSET Fields}

\* the history of the sessions
SessionConfigs ==
    {[l \in Labels |-> IF l = "Transport" THEN <<(<<"T", "a">>)>>
                       ELSE << <<"b">>, <<"t", "a">> >>]}

\* what the operator types at the Name prompt
NameInputs == {<<"T", "A">>, <<"b">>, <<"a">>}

\* what the operator types at the Amount prompt
AmountInputs ==
    {<<"1", "0", "+", "1", "0", "*", "2">>, <<"1", "0", "+">>, <<"1", ",", "5">>,
     <<"2", "/", "0">>}

\* the lookback window of the Date prompt, in days
LookbackDays == 30

\* how many days before today the operator picks
DateChoices == {0, 1, LookbackDays}

Page(id, title) == [id |-> id, title |-> title]

\* what the category collection may hold
CategoryLists ==
    {<<>>,
     <<Page(1, Some("Food")), Page(2, Some("Transport")), Page(3, Some("Transport"))>>,
     <<Page(4, None)>>}

\* a slip: the entry's kind is not looked at
IsKindAny(dbp, f, kind) == f \in DOMAIN dbp

\* if let Some(PropertyConfiguration::<kind> { .. }) = db_properties.get(f)
IsKind(dbp, f, kind) == f \in DOMAIN dbp /\ dbp[f] = kind

\* a slip: the Date block placed before the Amount block
StepAfterReordered(step) ==
    CASE step = "name" -> "date" [] step = "date" -> "amount"
      [] step = "amount" -> "category" [] step = "category" -> "select"
      [] step = "select" -> "create" [] step = "create" -> "confirm"

\* the order of the blocks of create_page_properties, then create_page's
\* request and run's prompt
StepAfter(step) ==
    CASE step = "name" -> "amount" [] step = "amount" -> "date"
      [] step = "date" -> "category" [] step = "category" -> "select"
      [] step = "select" -> "create" [] step = "create" -> "confirm"

\* a slip: the error of calc dropped
PropagatesNever(r) == FALSE

\* the ? on a Result: an Err returns it from the function
Propagates(r) == ~r.ok

\* serde_json::Number::from_f64: None for a value that is not finite
NumberFromF64(v) == IF IsFinite(v) THEN Some(v) ELSE None

\* a slip: the memo ignored
default_date_today(last, now) == now

\* self.last_date.unwrap_or(now)
default_date(last, now) == IF last = None THEN now ELSE Unwrap(last)

\* a slip: the cache is taken for empty whatever it holds
is_none_always(o) == TRUE

\* self.categories_cache.is_none()
is_none(o) == o = None

\* a slip: a failed fetch stored as an empty list of pages
OkToOptionOrEmpty(r) == IF r.ok THEN Some(r.v) ELSE Some(<<>>)

\* Result::ok
OkToOption(r) == IF r.ok THEN Some(r.v) ELSE None

\* Display for Page
PageLabel(page) == IF page.title = None THEN "Untitled" ELSE Unwrap(page.title)

\* preselect.and_then(|ps| options.iter().position(..)), counted from 1
PreselectPosition(pages, ps) ==
    IF ps # None /\ \E k \in 1..Len(pages) : PageLabel(pages[k]) = Unwrap(ps)
    THEN Some(CHOOSE k \in 1..Len(pages) :
                 /\ PageLabel(pages[k]) = Unwrap(ps)
                 /\ \A j \in 1..(k - 1) : PageLabel(pages[j]) # Unwrap(ps))
    ELSE None

\* a slip: with_starting_cursor left out
StartingCursorFirst(pages, ps) == 1

\* where inquire::Select starts: with_starting_cursor(pos), or its first entry
StartingCursor(pages, ps) ==
    IF PreselectPosition(pages, ps) = None THEN 1
    ELSE Unwrap(PreselectPosition(pages, ps))

otherVars == <<calcVars, getVars, completerVars>>

InitSession ==
    /\ \E cfg \in SessionConfigs, ord \in Orders : SettingsLoaded(cfg, ord)
    /\ pc = "get_database" /\ db_properties = <<>>
    /\ categories_cache = None /\ last_date = None
    /\ properties = <<>> /\ preselect = None /\ today = 0 /\ run_result = "running"
    /\ GhostIdle /\ CalcIdle /\ GetIdle /\ CompleterIdle

\* a slip: the error is recorded but the loop goes on to the continue prompt
FailsSoftly == pc' = "confirm" /\ run_result' = "Err"

\* an error leaves run through the ? operators
Fails == pc' = "done" /\ run_result' = "Err"

\* a prompt of this iteration was interrupted
Cancelled(prompt) ==
    /\ cancelled' = Some(prompt) /\ trace' = Append(trace, prompt) /\ Fails

\* notion_api.get_database(..).await?
get_database ==
    /\ pc = "get_database"
    /\ schema_fetches' = schema_fetches + 1
    /\ \/ \E sch \in Schemas :
             db_properties' = sch /\ pc' = "last5" /\ run_result' = run_result
       \/ db_properties' = db_properties /\ Fails
    /\ UNCHANGED <<categories_cache, last_date, properties, preselect, today>>
    /\ UNCHANGED <<iter, trace, fetch_calls, fetch_failed, displayed, listings, created_count,
                   default_offered, now_at_prompt, chosen_before, last_chosen,
                   last_created, amount_failed, cursor_start, cancelled>>
    /\ UNCHANGED <<otherVars, settingsVars>>

\* the five last records, fetched and printed; page_property_to_string
\* panics (todo!()) on a Date or Amount property of another kind
last5 ==
    /\ pc = "last5"
    /\ listings' = listings + 1
    /\ \/ pc' = "name" /\ iter' = 1 /\ run_result' = run_result
       \/ Fails /\ iter' = iter
       \/ pc' = "done" /\ run_result' = "Panic" /\ iter' = iter
    /\ UNCHANGED <<db_properties, categories_cache, last_date, properties,
                   preselect, today>>
    /\ UNCHANGED <<trace, fetch_calls, fetch_failed, displayed, schema_fetches, created_count,
                   default_offered, now_at_prompt, chosen_before, last_chosen,
                   last_created, amount_failed, cursor_start, cancelled>>
    /\ UNCHANGED <<otherVars, settingsVars>>

\* create_page_properties is entered; the Name block
NameStep ==
    /\ pc = "name"
    /\ IF IsKind(db_properties, "Name", "Title")
       THEN \/ \E name \in NameInputs :
                 /\ preselect' = Settings_get(normalized, name)
                 /\ properties' = ("Name" :> name)
                 /\ trace' = Append(trace, "Name")
                 /\ pc' = StepAfter("name")
                 /\ UNCHANGED <<run_result, cancelled>>
            \/ /\ Cancelled("Name")
               /\ properties' = <<>> /\ preselect' = None
       ELSE /\ properties' = <<>> /\ preselect' = None
            /\ pc' = StepAfter("name")
            /\ UNCHANGED <<run_result, cancelled, trace>>
    /\ UNCHANGED <<db_properties, categories_cache, last_date, today>>
    /\ UNCHANGED <<iter, fetch_calls, fetch_failed, displayed, schema_fetches, listings, created_count,
                   default_offered, now_at_prompt, chosen_before, last_chosen,
                   last_created, amount_failed, cursor_start>>
    /\ UNCHANGED <<otherVars, settingsVars>>

\* the Amount block
AmountStep ==
    /\ pc = "amount"
    /\ IF IsKind(db_properties, "Amount", "Number")
       THEN \/ \E e \in AmountInputs :
                 /\ trace' = Append(trace, "Amount")
                 /\ amount_failed' = ~calc(e).ok
                 /\ cancelled' = cancelled
                 /\ IF Propagates(calc(e))
                    THEN Fails /\ properties' = properties
                    ELSE /\ properties' =
                              ("Amount" :> NumberFromF64(calc(e).v)) @@ properties
                         /\ pc' = StepAfter("amount")
                         /\ run_result' = run_result
            \/ /\ Cancelled("Amount")
               /\ UNCHANGED <<properties, amount_failed>>
       ELSE /\ pc' = StepAfter("amount")
            /\ UNCHANGED <<properties, run_result, cancelled, trace, amount_failed>>
    /\ UNCHANGED <<db_properties, categories_cache, last_date, preselect, today>>
    /\ UNCHANGED <<iter, fetch_calls, fetch_failed, displayed, schema_fetches, listings, created_count,
                   default_offered, now_at_prompt, chosen_before, last_chosen,
                   last_created, cursor_start>>
    /\ UNCHANGED <<otherVars, settingsVars>>

\* midnight passes before the Date block reads the clock
Tick ==
    /\ pc = "date" /\ today < MaxDay
    /\ today' = today + 1
    /\ UNCHANGED <<pc, db_properties, categories_cache, last_date, properties,
                   preselect, run_result>>
    /\ UNCHANGED <<ghostVars, otherVars, settingsVars>>

\* the Date block
DateStep ==
    /\ pc = "date"
    /\ IF IsKind(db_properties, "Date", "Date")
       THEN /\ default_offered' = Some(default_date(last_date, today))
            /\ now_at_prompt' = Some(today)
            /\ chosen_before' = last_chosen
            /\ \/ \E k \in DateChoices :
                    /\ properties' = ("Date" :> (today - k)) @@ properties
                    /\ last_date' = Some(today - k)
                    /\ last_chosen' = Some(today - k)
                    /\ trace' = Append(trace, "Date")
                    /\ pc' = StepAfter("date")
                    /\ UNCHANGED <<run_result, cancelled>>
               \/ /\ Cancelled("Date")
                  /\ UNCHANGED <<properties, last_date, last_chosen>>
       ELSE /\ pc' = StepAfter("date")
            /\ UNCHANGED <<properties, last_date, last_chosen, run_result, cancelled,
                           trace, default_offered, now_at_prompt, chosen_before>>
    /\ UNCHANGED <<db_properties, categories_cache, preselect, today>>
    /\ UNCHANGED <<iter, fetch_calls, fetch_failed, displayed, schema_fetches, listings, created_count,
                   last_created, amount_failed, cursor_start>>
    /\ UNCHANGED <<otherVars, settingsVars>>

\* the Category block, to the end of the fetch
CategoryStep ==
    /\ pc = "category"
    /\ IF IsKind(db_properties, "Category", "Relation")
       THEN /\ pc' = StepAfter("category")
            /\ IF is_none(categories_cache)
               THEN /\ fetch_calls' = fetch_calls + 1
                    /\ trace' = Append(trace, "Fetch")
                    /\ \/ \E pages \in CategoryLists :
                            /\ categories_cache' = OkToOption(Ok(pages))
                            /\ fetch_failed' = FALSE
                       \/ /\ categories_cache' = OkToOption(Err("fetch"))
                          /\ fetch_failed' = TRUE
               ELSE UNCHANGED <<fetch_calls, fetch_failed, trace, categories_cache>>
       ELSE /\ pc' = "create"
            /\ UNCHANGED <<fetch_calls, fetch_failed, trace, categories_cache>>
    /\ UNCHANGED <<db_properties, last_date, properties, preselect, today, run_result>>
    /\ UNCHANGED <<iter, displayed, schema_fetches, listings, created_count, default_offered,
                   now_at_prompt, chosen_before, last_chosen, last_created,
                   amount_failed, cursor_start, cancelled>>
    /\ UNCHANGED <<otherVars, settingsVars>>

\* the Category block, after the fetch: select_page on the cached pages.
\* inquire::Select refuses an empty list of options with an error.
SelectStep ==
    /\ pc = "select"
    /\ IF categories_cache # None
       THEN IF Unwrap(categories_cache) = <<>>
            THEN /\ trace' = Append(trace, "Category") /\ Fails
                 /\ UNCHANGED <<properties, cursor_start, cancelled, displayed>>
            ELSE /\ cursor_start' =
                        Some(StartingCursor(Unwrap(categories_cache), preselect))
                 /\ displayed' = categories_cache
                 /\ \/ \E k \in 1..Len(Unwrap(categories_cache)) :
                         /\ properties' =
                               ("Category" :> Unwrap(categories_cache)[k].id)
                                   @@ properties
                         /\ trace' = Append(trace, "Category")
                         /\ pc' = StepAfter("select")
                         /\ UNCHANGED <<run_result, cancelled>>
                    \/ Cancelled("Category") /\ properties' = properties
       ELSE /\ pc' = StepAfter("select")
            /\ UNCHANGED <<properties, run_result, cancelled, trace, cursor_start,
                           displayed>>
    /\ UNCHANGED <<db_properties, categories_cache, last_date, preselect, today>>
    /\ UNCHANGED <<iter, fetch_calls, fetch_failed, schema_fetches, listings, created_count,
                   default_offered, now_at_prompt, chosen_before, last_chosen,
                   last_created, amount_failed>>
    /\ UNCHANGED <<otherVars, settingsVars>>

\* create_page: the record is submitted
create_page ==
    /\ pc = "create"
    /\ trace' = Append(trace, "Create")
    /\ \/ /\ created_count' = created_count + 1
          /\ last_created' = Some(properties)
          /\ pc' = StepAfter("create")
          /\ run_result' = run_result
       \/ Fails /\ UNCHANGED <<created_count, last_created>>
    /\ UNCHANGED <<db_properties, categories_cache, last_date, properties,
                   preselect, today>>
    /\ UNCHANGED <<iter, fetch_calls, fetch_failed, displayed, schema_fetches, listings, default_offered,
                   now_at_prompt, chosen_before, last_chosen, amount_failed,
                   cursor_start, cancelled>>
    /\ UNCHANGED <<otherVars, settingsVars>>

\* confirm.clone().prompt(): Ok(true) continues, anything else breaks
Confirm ==
    /\ pc = "confirm"
    /\ \/ /\ iter < MaxIter
          /\ pc' = "name" /\ iter' = iter + 1 /\ trace' = <<>>
          /\ properties' = <<>> /\ preselect' = None
          /\ default_offered' = None /\ now_at_prompt' = None
          /\ chosen_before' = None /\ last_created' = None /\ cursor_start' = None
          /\ fetch_failed' = FALSE
          /\ UNCHANGED <<run_result, cancelled>>
       \/ /\ pc' = "done" /\ run_result' = "Ok"
          /\ trace' = Append(trace, "Confirm")
          /\ cancelled' \in {cancelled, Some("Confirm")}
          /\ UNCHANGED <<iter, properties, preselect, default_offered, now_at_prompt,
                         chosen_before, last_created, cursor_start, fetch_failed>>
    /\ UNCHANGED <<db_properties, categories_cache, last_date, today>>
    /\ UNCHANGED <<fetch_calls, schema_fetches, listings, created_count, last_chosen,
                   amount_failed, displayed>>
    /\ UNCHANGED <<otherVars, settingsVars>>

Next ==
    \/ get_database \/ last5 \/ NameStep \/ AmountStep \/ Tick \/ DateStep
    \/ CategoryStep \/ SelectStep \/ create_page \/ Confirm

Spec == InitSession /\ [][Next]_vars

(***************************************************************************)
(* The claims.                                                             *)
(***************************************************************************)
\* what an operator character means
Meaning(c, a, b) ==
    CASE c = "+" -> FAdd(a, b) [] c = "-" -> FSub(a, b)
      [] c = "*" -> FMul(a, b) [] c = "/" -> FDiv(a, b)

\* (((n1 op1 n2) op2 n3) ... nk)
RECURSIVE LeftFold(_, _)
LeftFold(vals, ops) ==
    IF Len(vals) = 1 THEN vals[1]
    ELSE Meaning(ops[Len(ops)],
                 LeftFold(SubSeq(vals, 1, Len(vals) - 1), SubSeq(ops, 1, Len(ops) - 1)),
                 vals[Len(vals)])

\* C1: on k >= 1 numeric operands separated by single operators, calc
\* returns the strict left fold of the operands' values (the operand itself
\* for k = 1), whatever the conventional precedence of the operators.
C1_LeftFold ==
    cpc = "returned" =>
        ret = Ok(LeftFold([k \in 1..Len(operands) |-> operands[k].val], operators))

\* "10+10*2" has returned 40
C1_Witness ==
    /\ cpc = "returned"
    /\ expresion = <<"1", "0", "+", "1", "0", "*", "2">>
    /\ Len(operands) = 3
    /\ ret = Ok(<<40, 1>>)

\* C2: the category fetch is invoked at most once in a session, a failed
\* fetch included.
C2_FetchAtMostOnce == fetch_calls <= 1

\* C3: the default a Date prompt offers is the date chosen at the Date prompt
\* before it in the session, and the date of the day when there was none.
C3_DateDefault ==
    default_offered # None =>
        default_offered = (IF chosen_before = None THEN now_at_prompt ELSE chosen_before)

\* a second Date prompt that offered the first one's date, not the day's
C3_Witness ==
    /\ iter = 2 /\ default_offered # None /\ chosen_before # None
    /\ default_offered # now_at_prompt /\ "Date" \in DOMAIN properties

\* e ends with an operator: its last operator has no operand after it
DanglingOperator(e) == Len(e) >= 1 /\ e[Len(e)] \in OperatorChars

\* C4: on an input that ends with a dangling operator calc returns a
\* failure, never a number.
C4_DanglingOperatorFails ==
    (cpc = "returned" /\ DanglingOperator(expresion)) => ~ret.ok

\* C5: when the Amount expression fails to evaluate, the run has ended with
\* the error and no record was submitted in that iteration.
C5_NoPartialRecord ==
    amount_failed =>
        /\ pc = "done" /\ run_result = "Err"
        /\ created_count = iter - 1
        /\ \A k \in 1..Len(trace) : trace[k] # "Create"

\* calc failed in a second iteration, with a name already collected
C5_Witness ==
    /\ amount_failed /\ iter = 2 /\ "Name" \in DOMAIN properties
    /\ trace = <<"Name", "Amount">>

\* p is, character for character, the beginning of s
LiteralPrefix(p, s) == Len(p) <= Len(s) /\ \A k \in 1..Len(p) : s[k] = p[k]

\* C6: two get_suggestions calls in a row with one prefix return one list and
\* the second leaves the memo as it was; every name returned starts, case
\* for case, with the prefix just queried.
C6_Idempotent ==
    /\ (ncalls = 2 /\ q_prev = q_last) =>
           (r_prev = r_last /\ memo_before = <<input, output>>)
    /\ ncalls >= 1 => \A k \in 1..Len(r_last) : LiteralPrefix(q_last, r_last[k])

\* a prefix queried twice in a row, with names returned, while another
\* title of the completer does not start with it
C6_Witness ==
    /\ ncalls = 2 /\ q_prev = q_last /\ q_last # <<>> /\ r_last # <<>>
    /\ Len(r_last) < Len(prev_titles)

\* a and b differ at most in the case of their letters
SameButCase(a, b) ==
    /\ Len(a) = Len(b)
    /\ \A k \in 1..Len(a) :
          \/ a[k] = b[k]
          \/ \E j \in 1..Len(UpperCase) :
                {a[k], b[k]} = {UpperCase[j], LowerCase[j]}

\* the configured names that differ from q at most in letter case
Matching(q) ==
    {n \in Names : SameButCase(n, q) /\ \E l \in Labels : Contains(config[l], n)}

\* C7 as stated: the label returned lists every configured name the query
\* matches but for case.
C7_Original ==
    get_key # None =>
        IF Matching(Unwrap(get_key)) = {} THEN get_result = None
        ELSE /\ get_result # None
             /\ \A n \in Matching(Unwrap(get_key)) :
                   Contains(config[Unwrap(get_result)], n)

\* C7, amended: the lookup of a query that differs at most in letter case
\* from configured names returns a label that lists one of those names; a
\* query that matches no configured name in any case returns none.
C7_Amended ==
    get_key # None =>
        IF Matching(Unwrap(get_key)) = {} THEN get_result = None
        ELSE /\ get_result # None
             /\ \E n \in Matching(Unwrap(get_key)) :
                   Contains(config[Unwrap(get_result)], n)

\* "Ta" is stored, "TA" is asked for, the label of "Ta" is returned
C7_Witness ==
    /\ config["Transport"] = <<(<<"T", "a">>)>> /\ config["Food"] = <<>>
    /\ get_key = Some(<<"T", "A">>) /\ get_result = Some("Transport")

\* the schema has field f with the kind the field is read as
Recognized(f) == f \in DOMAIN db_properties /\ db_properties[f] = RightKind[f]

\* C8 as stated: in the record the builder returns, a field is present if
\* and only if the schema has it with its recognized kind.
C8_Original ==
    pc = "create" =>
        \A f \in Fields : (f \in DOMAIN properties) <=> Recognized(f)

\* C8, amended: Name, Amount and Date are present if and only if the schema
\* has them with their kind; Category is present if and only if the schema
\* has it as a Relation and the category list has been fetched.
C8_Amended ==
    pc = "create" =>
        \A f \in Fields :
            (f \in DOMAIN properties) <=>
                (Recognized(f) /\ (f = "Category" => categories_cache # None))

\* a record returned without its Category after a failed fetch, from a
\* schema with an entry of another kind that was skipped
C8_Witness ==
    /\ pc = "create" /\ Recognized("Category") /\ categories_cache = None
    /\ DOMAIN properties = {"Name", "Date"}
    /\ "Amount" \in DOMAIN db_properties /\ ~Recognized("Amount")

\* the order of the prompts and calls of one iteration
StepOrder == <<"Name", "Amount", "Date", "Fetch", "Category", "Create", "Confirm">>

StepIndex(e) == CHOOSE k \in 1..Len(StepOrder) : StepOrder[k] = e

InTrace(e) == \E k \in 1..Len(trace) : trace[k] = e

\* C9: the schema is fetched once, before any prompt, then the records are
\* listed; the prompts and calls of an iteration come in the order Name,
\* Amount, Date, Category, create, continue; only fields of the schema are
\* prompted for; create comes after every field step, the continue prompt
\* after a create that succeeded.
C9_Sequence ==
    /\ schema_fetches <= 1 /\ listings <= 1
    /\ listings = 1 => schema_fetches = 1
    /\ (iter >= 1 \/ trace # <<>>) => (schema_fetches = 1 /\ listings = 1)
    /\ \A j, k \in 1..Len(trace) : j < k => StepIndex(trace[j]) < StepIndex(trace[k])
    /\ \A f \in {"Name", "Amount", "Date"} : InTrace(f) => Recognized(f)
    /\ (InTrace("Fetch") \/ InTrace("Category")) => Recognized("Category")
    /\ InTrace("Create") =>
          /\ \A f \in {"Name", "Amount", "Date"} : Recognized(f) => InTrace(f)
          /\ (Recognized("Category") /\ categories_cache # None) => InTrace("Category")
    /\ pc = "confirm" => (trace[Len(trace)] = "Create" /\ created_count = iter)
    /\ InTrace("Confirm") =>
          (trace[Len(trace) - 1] = "Create" /\ created_count = iter)

\* a second iteration that went through every step
C9_Witness ==
    /\ pc = "confirm" /\ iter = 2
    /\ trace = <<"Name", "Amount", "Date", "Fetch", "Category", "Create">>

\* C10: after a malformed amount expression the session loop is still
\* running.
C10_ParseErrorKeepsSession == amount_failed => run_result = "running"

\* C11: a cancelled prompt (Name, Amount, Date, Category or the continue
\* prompt) ends the run with an error, never with success.
C11_CancelIsError == cancelled # None => (pc = "done" /\ run_result = "Err")

\* some division of the left fold has a zero right operand
DividesByZero ==
    \E k \in 1..Len(operators) :
        operators[k] = "/" /\ operands[k + 1].val = <<0, 1>>

\* C12: an expression whose left fold divides by a zero operand returns a
\* success carrying a non-finite value (an infinity or NaN), never a failure.
C12_DivisionByZero ==
    (cpc = "returned" /\ DividesByZero) => (ret.ok /\ ~IsFinite(ret.v))

C12_Witness ==
    /\ cpc = "returned" /\ expresion = <<"1", "0", "/", "0">>
    /\ ret = Ok(<<1, 0>>)

\* the expression without its character at position k
RemoveAt(e, k) == SubSeq(e, 1, k - 1) \o SubSeq(e, k + 1, Len(e))

IsOperandChar(c) == IsDigit(c) \/ IsSeparator(c)

IsIllegal(c) == ~IsOperandChar(c) /\ c \notin OperatorChars

\* position k has operand characters on both sides
InsideOperand(e, k) ==
    /\ k > 1 /\ k < Len(e)
    /\ IsOperandChar(e[k - 1]) /\ IsOperandChar(e[k + 1])

\* C13: an illegal character that is not inside an operand is ignored: the
\* expression with it evaluates as the expression without it, and a success
\* of the latter is not turned into a failure.
C13_IllegalIgnored ==
    cpc = "returned" =>
        \A k \in 1..Len(expresion) :
            (IsIllegal(expresion[k]) /\ ~InsideOperand(expresion, k)
                /\ calc(RemoveAt(expresion, k)).ok)
            => ret = calc(RemoveAt(expresion, k))

\* C14: at every point of the scan calc holds at most two operands and at
\* most one pending operator, and after a character has been processed it
\* never holds two operands together with a pending operator.
C14_BoundedState ==
    cpc = "loop" =>
        /\ Len(stack) <= 2
        /\ Len(op) <= 1
        /\ ~(Len(stack) = 2 /\ op # None)

\* the expression with every ',' written as '.'
CommaToDot(e) == [k \in 1..Len(e) |-> IF e[k] = "," THEN "." ELSE e[k]]

\* no operand token holds two separators
SingleSeparators(e) ==
    \A j, k \in 1..Len(e) :
        (j < k /\ IsSeparator(e[j]) /\ IsSeparator(e[k]))
        => \E m \in (j + 1)..(k - 1) : ~IsOperandChar(e[m])

\* C15: a ',' in an operand is read as the decimal point: an expression
\* whose operands hold at most one separator evaluates as the same
\* expression written with '.'.
C15_CommaIsPoint ==
    (cpc = "returned" /\ SingleSeparators(expresion))
        => ret = calc(CommaToDot(expresion))

\* C16: whatever calls came before, the first call and the empty prefix
\* included, get_suggestions returns exactly the titles that start with the
\* prefix queried, in the order of the list of titles.
C16_ExactSuggestions ==
    ncalls >= 1 =>
        r_last = SelectSeq(prev_titles, LAMBDA t : LiteralPrefix(q_last, t))

\* the labels under which the configuration lists the name entered in this
\* pass, in any letter case
HintLabels ==
    IF "Name" \in DOMAIN properties
    THEN {l \in Labels :
            \E n \in Matching(properties["Name"]) : Contains(config[l], n)}
    ELSE {}

\* the entries of the cached list displayed under the hint
HintEntries ==
    {k \in 1..Len(Unwrap(categories_cache)) :
        LET page == Unwrap(categories_cache)[k]
        IN  preselect = (IF page.title = None THEN Some("Untitled") ELSE page.title)}

\* C17: the hint comes from the name entered in the same pass only (none
\* without a Title Name field or for a name without a category), and the
\* Category prompt starts on the first entry displayed as the hint, or on
\* the first entry when there is no hint or no such entry.
C17_Preselection ==
    /\ IF HintLabels = {} THEN preselect = None
       ELSE preselect # None /\ Unwrap(preselect) \in HintLabels
    /\ ("Name" \in DOMAIN properties) => Recognized("Name")
    /\ cursor_start # None =>
           Unwrap(cursor_start) =
               IF HintEntries = {} THEN 1
               ELSE CHOOSE k \in HintEntries : \A j \in HintEntries : k <= j

\* in the second pass the prompt starts on the second entry, the first one
\* displayed as the hint
C17_Witness ==
    /\ iter = 2 /\ preselect = Some("Transport") /\ cursor_start = Some(2)
    /\ properties["Name"] = <<"T", "A">>

\* what the session has asked, fetched and submitted so far
Activity == <<trace, fetch_calls, schema_fetches, listings, created_count, iter>>

\* C18: after a non-affirmative answer or an error the session is over for
\* good, with no further prompt, fetch or create; while every answer is
\* affirmative and nothing fails, each iteration submits exactly one record.
C18_StopsForGood ==
    /\ [](run_result # "running" => pc = "done")
    /\ [](InTrace("Confirm") => (pc = "done" /\ run_result = "Ok"))
    /\ []((run_result \in {"running", "Ok"} /\ iter >= 1) =>
              created_count = (IF pc \in {"confirm", "done"} THEN iter ELSE iter - 1))
    /\ [][run_result # "running" => Activity' = Activity]_vars

\* the second iteration failed after the first had submitted its record
C18_Witness ==
    /\ pc = "done" /\ run_result = "Err" /\ iter = 2 /\ created_count = 1
    /\ trace # <<>>

\* C19: a failed fetch of the categories is absorbed: no Category prompt is
\* shown, the builder returns the record of the other recognized fields
\* without an error, and that record is submitted; the iteration can only
\* fail in the create call itself.
C19_FetchFailureAbsorbed ==
    fetch_failed =>
        /\ pc \in {"select", "create", "confirm", "done"}
        /\ ~InTrace("Category")
        /\ DOMAIN properties = {f \in {"Name", "Amount", "Date"} : Recognized(f)}
        /\ pc = "done" => InTrace("Create")
        /\ run_result = "Err" => trace[Len(trace)] = "Create"
        /\ (InTrace("Create") /\ run_result # "Err") => last_created = Some(properties)

\* the fetch failed and the record, with a name in it, was submitted
C19_Witness ==
    /\ fetch_failed /\ pc = "confirm" /\ "Name" \in DOMAIN properties
    /\ last_created = Some(properties) /\ categories_cache = None

\* a maximal run of digits and separators, with a digit in it, starts at k
OperandStartsAt(e, k) ==
    /\ IsOperandChar(e[k]) /\ (k = 1 \/ ~IsOperandChar(e[k - 1]))
    /\ \E m \in k..Len(e) :
           IsDigit(e[m]) /\ \A j \in k..m : IsOperandChar(e[j])

\* the tokens of an expression from position k on: an operand is such a
\* run, an operator is one operator character
RECURSIVE TokenKinds(_, _)
TokenKinds(e, k) ==
    IF k > Len(e) THEN <<>>
    ELSE IF e[k] \in OperatorChars THEN <<"operator">> \o TokenKinds(e, k + 1)
    ELSE IF OperandStartsAt(e, k) THEN <<"operand">> \o TokenKinds(e, k + 1)
    ELSE TokenKinds(e, k + 1)

\* operand, operator, operand, ..., operand
Alternates(t) ==
    /\ Len(t) % 2 = 1
    /\ \A k \in 1..Len(t) : t[k] = (IF k % 2 = 1 THEN "operand" ELSE "operator")

\* C20: calc returns a number only for an expression whose tokens alternate
\* operand, operator, ..., operand.
C20_ImbalanceRejected ==
    (cpc = "returned" /\ ret.ok) => Alternates(TokenKinds(expresion, 1))

\* C21: the last-date memo changes only in a Date step that completed, to
\* the date chosen; the cache changes only in a Category step that found it
\* unpopulated; the Name and Amount steps, create_page and the continue
\* prompt change neither; a list once cached is never replaced, and every
\* Category prompt displays that one list.
C21_Frame ==
    [][/\ last_date' # last_date =>
              /\ pc = "date" /\ trace' = Append(trace, "Date")
              /\ "Date" \in DOMAIN properties'
              /\ last_date' = Some(properties'["Date"])
       /\ categories_cache' # categories_cache =>
              (pc = "category" /\ categories_cache = None)
       /\ pc \in {"name", "amount", "create", "confirm"} =>
              UNCHANGED <<last_date, categories_cache>>
       /\ categories_cache # None => categories_cache' = categories_cache
       /\ displayed # None => displayed' = displayed
       /\ displayed' # None => displayed' = categories_cache'
      ]_vars

\* the second Category prompt displayed the list fetched in the first pass
C21_Witness ==
    /\ iter = 2 /\ InTrace("Category") /\ fetch_calls = 1
    /\ categories_cache # None /\ displayed = categories_cache
    /\ last_date # None

====
